---- MODULE Spec2Model ----
(***************************************************************************)
(* Verification model of the digital-goods storefront.                     *)
(*                                                                         *)
(* Part 1 models the database tables Product, Order and OrderItem          *)
(* (store/models.py), the customer-facing views of store/views.py and the  *)
(* edits the Django admin site (store/admin.py) allows.                    *)
(* Part 2 models the book importers (store/management/commands).           *)
(***************************************************************************)
EXTENDS Integers, Sequences, FiniteSets, TLC

\* ------------------------------------------------------------------------
\* Bounds and finite domains
\* ------------------------------------------------------------------------

\* Largest number of rows of the Order table that a run explores.
MaxOrders == 2

\* Authenticated users, and the anonymous user of an unauthenticated request.
Users == {"alice", "bob"}
Anon == "anonymous"
Requesters == Users \cup {Anon}

\* Products of the catalog, and an id that matches no Product row.
Products == {"ebook", "course"}
NoProduct == "missing"
ProductIds == Products \cup {NoProduct}

\* Product.price values: 0 (free) and the price the importers give paid books.
Prices == {0, 49}

\* Order.STATUS_CHOICES
STATUS_CHOICES == {"pending", "processing", "completed", "cancelled"}

Methods == {"GET", "POST"}

\* Values of the POST field upi_transaction_id: strings over a blank and a
\* non-blank character, as sequences of characters.
TxIds ==
    { <<>>, <<" ">>, <<"T">>, <<" ", "T", " ">> }

\* The requests create_order receives: a GET carries no form data.
Forms == {<<"GET", <<>>>>} \cup ({"POST"} \X TxIds)

NoOrder == 0

VARIABLES
    price,      \* Product.price
    active,     \* Product.active
    ext,        \* Product.external_download_url is set
    file,       \* Product.digital_file is attached
    orders,     \* Order table, in creation order; the id is the index
    items,      \* OrderItem table, in creation order
    last        \* the response to the last request handled

storeVars == <<price, active, ext, file, orders, items, last>>

VARIABLES
    cmd,            \* the management command that runs
    options_count,  \* the value of --count
    pc,             \* position of the command's main thread
    count,          \* the effective limit of the run
    imported,       \* counters of handle
    skipped,
    errors,
    fetches,        \* pages (batches) requested so far
    sent,           \* requests.get calls made for the current URL
    fetched,        \* how the last fetch of a page or of a file ended
    left,           \* books of the current page not yet visited
    cur,            \* slug of the book whose file is being downloaded
    catalog         \* slugs of the Product rows

impVars == <<cmd, options_count, pc, count, imported, skipped, errors,
             fetches, sent,
             fetched, left, cur, catalog>>

VARIABLES
    workers,          \* scrape_librivox_chinese: the --workers option
    existing_slugs,   \* its cache of the slugs of the category
    books,            \* the batch the API returned
    books_to_import,  \* the books of the batch that passed the filter
    products_data,    \* bulk_import_books: the prepared products
    futures,          \* state of the cover download submitted for each
    created_count,    \* bulk_import_books: products created so far
    txn               \* the transaction.atomic() block around the creates

lvVars == <<workers, existing_slugs, books, books_to_import, products_data,
            futures, created_count, txn>>

vars == <<storeVars, impVars, lvVars>>

\* ------------------------------------------------------------------------
\* Helpers
\* ------------------------------------------------------------------------

\* str.strip(): drop leading and trailing whitespace.
RECURSIVE lstrip(_)
lstrip(s) ==
    IF s = <<>> THEN <<>>
    ELSE IF Head(s) = " " THEN lstrip(Tail(s)) ELSE s

RECURSIVE rstrip(_)
rstrip(s) ==
    IF s = <<>> THEN <<>>
    ELSE IF s[Len(s)] = " " THEN rstrip(SubSeq(s, 1, Len(s) - 1)) ELSE s

strip(s) == rstrip(lstrip(s))

\* Product.is_free
is_free(p) == price[p] = 0

\* OrderItem.total_price
total_price(it) == it.price * it.quantity

RECURSIVE SumItems(_, _)
SumItems(o, n) ==
    IF n = 0 THEN 0
    ELSE (IF items[n].order = o THEN total_price(items[n]) ELSE 0)
         + SumItems(o, n - 1)

\* Sum of quantity * price over the items of order o.
ItemsTotal(o) == SumItems(o, Len(items))

ItemsOf(o) == { i \in 1..Len(items) : items[i].order = o }

Min(S) == CHOOSE x \in S : \A y \in S : x <= y

\* The record of a response.
Response(view, u, p, o, result, msg) ==
    [view |-> view, user |-> u, product |-> p, order |-> o,
     result |-> result, msg |-> msg, visible |-> {},
     method |-> "none", tx |-> <<>>]

\* A decorator that lets every request through.
login_required_Off(u) == TRUE

\* @login_required: an unauthenticated request is redirected to the login page
\* and the view body does not run.
login_required(u) == u # Anon

LoginRedirect(view) == Response(view, Anon, NoProduct, NoOrder, "login", "none")

\* OrderItem.objects.filter(order__user=u, order__status=s, product=p)
OrderItemsFor(u, s, p) ==
    { i \in 1..Len(items) :
        /\ orders[items[i].order].user = u
        /\ orders[items[i].order].status = s
        /\ items[i].product = p }

\* ------------------------------------------------------------------------
\* Customer-facing views (store/views.py)
\* ------------------------------------------------------------------------

\* get_object_or_404(Product, id=product_id, active=True)
ActiveProduct(p) == p \in Products /\ active[p]

\* product_detail: the page with its can_download flag, 404 for an inactive
\* or unknown product. Not behind login_required.
product_detail(u, p) ==
    /\ last' =
        IF ~ActiveProduct(p)
        THEN Response("product_detail", u, p, NoOrder, "404", "none")
        ELSE IF u # Anon /\ (is_free(p) \/ OrderItemsFor(u, "completed", p) # {})
        THEN Response("product_detail", u, p, NoOrder, "page_can_download", "none")
        ELSE Response("product_detail", u, p, NoOrder, "page", "none")
    /\ UNCHANGED <<price, active, ext, file, orders, items, impVars, lvVars>>

\* buy_now: redirect to the checkout of an active product.
buy_now(u, p) ==
    /\ last' =
        IF ~login_required(u) THEN LoginRedirect("buy_now")
        ELSE IF ~ActiveProduct(p)
        THEN Response("buy_now", u, p, NoOrder, "404", "none")
        ELSE Response("buy_now", u, p, NoOrder, "redirect_checkout", "none")
    /\ UNCHANGED <<price, active, ext, file, orders, items, impVars, lvVars>>

\* checkout: the checkout page (UPI QR code) of an active product.
checkout(u, p) ==
    /\ last' =
        IF ~login_required(u) THEN LoginRedirect("checkout")
        ELSE IF ~ActiveProduct(p)
        THEN Response("checkout", u, p, NoOrder, "404", "none")
        ELSE Response("checkout", u, p, NoOrder, "page", "none")
    /\ UNCHANGED <<price, active, ext, file, orders, items, impVars, lvVars>>

\* An Order row that is born completed.
NewOrder_Completed(u, p, tx) ==
    [user |-> u, status |-> "completed", total_amount |-> price[p],
     upi_transaction_id |-> strip(tx)]

\* An Order row whose total is left at zero.
NewOrder_NoTotal(u, p, tx) ==
    [user |-> u, status |-> "pending", total_amount |-> 0,
     upi_transaction_id |-> strip(tx)]

\* The Order row create_order inserts.
NewOrder(u, p, tx) ==
    [user |-> u, status |-> "pending", total_amount |-> price[p],
     upi_transaction_id |-> strip(tx)]

\* The OrderItem row create_order inserts for order o.
NewOrderItem(o, p) ==
    [order |-> o, product |-> p, quantity |-> 1, price |-> price[p]]

\* The guard without the .strip() of the transaction id.
CreateOrderAccepts_NoStrip(method, p, tx) ==
    /\ method = "POST"
    /\ ActiveProduct(p)
    /\ tx # <<>>

\* The guard of create_order's insert: a POST for an active product with a
\* transaction id that is not blank.
CreateOrderAccepts(method, p, tx) ==
    /\ method = "POST"
    /\ ActiveProduct(p)
    /\ strip(tx) # <<>>

\* The response of create_order, with the request's method and transaction id.
CreateResponse(u, p, o, result, msg, method, tx) ==
    [Response("create_order", u, p, o, result, msg)
        EXCEPT !.method = method, !.tx = tx]

\* create_order
create_order(u, p, method, tx) ==
    IF ~login_required(u)
    THEN /\ last' = LoginRedirect("create_order")
         /\ UNCHANGED <<price, active, ext, file, orders, items, impVars, lvVars>>
    ELSE IF CreateOrderAccepts(method, p, tx)
    THEN /\ Len(orders) < MaxOrders
         /\ orders' = Append(orders, NewOrder(u, p, tx))
         /\ items' = Append(items, NewOrderItem(Len(orders) + 1, p))
         /\ last' = CreateResponse(u, p, Len(orders) + 1,
                                   "redirect_order_detail", "success", method, tx)
         /\ UNCHANGED <<price, active, ext, file, impVars, lvVars>>
    ELSE /\ last' =
            IF method # "POST"
            THEN CreateResponse(u, p, NoOrder, "redirect_product_list", "none",
                                method, tx)
            ELSE IF ~ActiveProduct(p)
            THEN CreateResponse(u, p, NoOrder, "404", "none", method, tx)
            ELSE CreateResponse(u, p, NoOrder, "redirect_checkout", "error",
                                method, tx)
         /\ UNCHANGED <<price, active, ext, file, orders, items, impVars, lvVars>>

\* download_product, free branch: external URL first, then the attached file.
ServeFree(u, p, onDisk) ==
    IF ext[p]
    THEN Response("download_product", u, p, NoOrder, "external", "none")
    ELSE IF ~file[p]
    THEN Response("download_product", u, p, NoOrder,
                  "redirect_product_detail", "error")
    ELSE IF onDisk
    THEN Response("download_product", u, p, NoOrder, "file", "none")
    ELSE Response("download_product", u, p, NoOrder, "404", "none")

\* A tail that prefers the attached file to the external URL.
ServePaid_FileFirst(u, p, onDisk) ==
    IF file[p] /\ onDisk
    THEN Response("download_product", u, p, NoOrder, "file", "none")
    ELSE IF ext[p]
    THEN Response("download_product", u, p, NoOrder, "external", "none")
    ELSE IF ~file[p]
    THEN Response("download_product", u, p, NoOrder,
                  "redirect_product_detail", "error")
    ELSE Response("download_product", u, p, NoOrder, "404", "none")

\* download_product, tail of the paid branch: the same order of checks.
ServePaid(u, p, onDisk) ==
    IF ext[p]
    THEN Response("download_product", u, p, NoOrder, "external", "none")
    ELSE IF ~file[p]
    THEN Response("download_product", u, p, NoOrder,
                  "redirect_product_detail", "error")
    ELSE IF onDisk
    THEN Response("download_product", u, p, NoOrder, "file", "none")
    ELSE Response("download_product", u, p, NoOrder, "404", "none")

\* A purchase check that forgets the order__user filter.
HasPurchased_AnyUser(u, p) ==
    \E i \in 1..Len(items) :
        /\ orders[items[i].order].status = "completed"
        /\ items[i].product = p

\* order_items.exists() of download_product
HasPurchased(u, p) == OrderItemsFor(u, "completed", p) # {}

\* download_product, paid branch without a completed order: redirect to the
\* first pending order of the user for the product, else to the product page.
NotPurchased(u, p) ==
    IF OrderItemsFor(u, "pending", p) # {}
    THEN Response("download_product", u, p,
                  items[Min(OrderItemsFor(u, "pending", p))].order,
                  "redirect_order_detail", "warning")
    ELSE Response("download_product", u, p, NoOrder,
                  "redirect_product_detail", "error")

\* A download_product without the branch for free products.
DownloadResponse_NoFreeBranch(u, p, onDisk) ==
    IF ~login_required(u) THEN LoginRedirect("download_product")
    ELSE IF p \notin Products
    THEN Response("download_product", u, p, NoOrder, "404", "none")
    ELSE IF ~HasPurchased(u, p) THEN NotPurchased(u, p)
    ELSE ServePaid(u, p, onDisk)

\* The response of download_product; onDisk is os.path.exists(file_path).
DownloadResponse(u, p, onDisk) ==
    IF ~login_required(u) THEN LoginRedirect("download_product")
    ELSE IF p \notin Products
    THEN Response("download_product", u, p, NoOrder, "404", "none")
    ELSE IF is_free(p) THEN ServeFree(u, p, onDisk)
    ELSE IF ~HasPurchased(u, p) THEN NotPurchased(u, p)
    ELSE ServePaid(u, p, onDisk)

download_product(u, p, onDisk) ==
    /\ last' = DownloadResponse(u, p, onDisk)
    /\ UNCHANGED <<price, active, ext, file, orders, items, impVars, lvVars>>

\* Order.objects.filter(user=request.user)
OrdersOf(u) == { o \in 1..Len(orders) : orders[o].user = u }

\* order_list
order_list(u) ==
    /\ last' =
        IF ~login_required(u) THEN LoginRedirect("order_list")
        ELSE [Response("order_list", u, NoProduct, NoOrder, "page", "none")
                EXCEPT !.visible = OrdersOf(u)]
    /\ UNCHANGED <<price, active, ext, file, orders, items, impVars, lvVars>>

\* A lookup by id alone, without user=request.user.
OrderVisible_AnyUser(u, o) == o \in 1..Len(orders)

\* get_object_or_404(Order, id=order_id, user=request.user)
OrderVisible(u, o) == o \in 1..Len(orders) /\ orders[o].user = u

\* order_detail
order_detail(u, o) ==
    /\ last' =
        IF ~login_required(u) THEN LoginRedirect("order_detail")
        ELSE IF ~OrderVisible(u, o)
        THEN Response("order_detail", u, NoProduct, o, "404", "none")
        ELSE [Response("order_detail", u, NoProduct, o, "page", "none")
                EXCEPT !.visible = {o}]
    /\ UNCHANGED <<price, active, ext, file, orders, items, impVars, lvVars>>

\* ------------------------------------------------------------------------
\* Admin site (store/admin.py): the fields of Product and Order it edits
\* ------------------------------------------------------------------------

Staff == "staff"

AdminResponse == Response("admin", Staff, NoProduct, NoOrder, "saved", "none")

\* OrderAdmin: the staff sets the status of an order.
AdminSetStatus(o, s) ==
    /\ o \in 1..Len(orders)
    /\ orders[o].status # s
    /\ orders' = [orders EXCEPT ![o].status = s]
    /\ last' = AdminResponse
    /\ UNCHANGED <<price, active, ext, file, items, impVars, lvVars>>

\* ProductAdmin: price (MinValueValidator(0) keeps it in Prices).
AdminSetPrice(p, v) ==
    /\ price[p] # v
    /\ price' = [price EXCEPT ![p] = v]
    /\ last' = AdminResponse
    /\ UNCHANGED <<active, ext, file, orders, items, impVars, lvVars>>

\* ProductAdmin: active.
AdminSetActive(p, b) ==
    /\ active[p] # b
    /\ active' = [active EXCEPT ![p] = b]
    /\ last' = AdminResponse
    /\ UNCHANGED <<price, ext, file, orders, items, impVars, lvVars>>

\* ========================================================================
\* Part 2: the book importers (store/management/commands)
\* ========================================================================

\* Largest --count option explored.
MaxCount == 2
\* Largest number of books in one API page or batch explored.
MaxPage == 2
\* Largest number of pages or batches one run fetches in the model.
MaxFetches == 2
\* Largest --workers option explored.
MaxWorkers == 2

\* import_gutenberg_books: count = min(options['count'], 500)
GutenbergCap == 500

\* Slugs the importers compute for the books the APIs return.
Slugs == {"s1", "s2", "s3"}
NoSlug == "none"

\* Outcomes of one requests.get: status 200, another status, an exception.
HttpOutcomes == {"ok", "status", "exception"}

\* A handle that takes --count as it is.
Min2_NoCap(a, b) == a

Min2(a, b) == IF a <= b THEN a ELSE b

\* A fetch function with a retry loop: a failed request is sent once more.
ShouldRetry_Once(n, outcome) == n < 1

\* The importers' fetch functions make one requests.get inside try/except and
\* have no loop around it: a failed request is not issued again. n is the
\* number of requests already sent for the URL before the one that failed.
ShouldRetry(n, outcome) == FALSE

\* ------------------------------------------------------------------------
\* import_gutenberg_books
\* ------------------------------------------------------------------------

\* handle, up to the while loop: the counters start at 0.
GutenbergStart(c) ==
    /\ cmd = "gutenberg" /\ pc = "start"
    /\ options_count' = c
    /\ count' = Min2(c, GutenbergCap)
    /\ imported' = 0 /\ skipped' = 0 /\ errors' = 0
    /\ pc' = "while"
    /\ UNCHANGED <<cmd, fetches, sent, fetched, left, cur, catalog>>
    /\ UNCHANGED <<storeVars, lvVars>>

\* while imported + skipped < count
GutenbergWhile ==
    /\ cmd = "gutenberg" /\ pc = "while"
    /\ pc' = IF imported + skipped < count THEN "fetch" ELSE "done"
    /\ sent' = 0
    /\ UNCHANGED <<cmd, options_count,
                   count, imported, skipped, errors, fetches,
                   fetched, left, cur, catalog>>
    /\ UNCHANGED <<storeVars, lvVars>>

\* fetch_gutenberg_books(page) and the `if not books: break` after it.
\* n is the number of books of the page the API returns.
fetch_gutenberg_books(outcome, n) ==
    /\ cmd = "gutenberg" /\ pc = "fetch"
    /\ fetches < MaxFetches \/ sent > 0
    /\ sent' = sent + 1
    /\ fetches' = IF sent = 0 THEN fetches + 1 ELSE fetches
    /\ IF outcome = "ok"
       THEN /\ left' = n
            /\ fetched' = "page"
            /\ pc' = IF n > 0 THEN "for" ELSE "done"
       ELSE IF ShouldRetry(sent, outcome)
       THEN /\ pc' = "fetch" /\ UNCHANGED <<left, fetched>>
       ELSE /\ left' = 0 /\ fetched' = "page_failed" /\ pc' = "done"
    /\ UNCHANGED <<cmd, options_count,
                   count, imported, skipped, errors, cur, catalog>>
    /\ UNCHANGED <<storeVars, lvVars>>

\* A for loop without the `if imported + skipped >= count: break` test.
GutenbergFor_NoBreak ==
    /\ cmd = "gutenberg" /\ pc = "for"
    /\ pc' = IF left = 0 THEN "while" ELSE "book"
    /\ UNCHANGED <<cmd, options_count,
                   count, imported, skipped, errors, fetches, sent,
                   fetched, left, cur, catalog>>
    /\ UNCHANGED <<storeVars, lvVars>>

\* for book in books: if imported + skipped >= count: break;
\* after the loop page += 1 and back to the while.
GutenbergFor ==
    /\ cmd = "gutenberg" /\ pc = "for"
    /\ pc' = IF left = 0 \/ imported + skipped >= count THEN "while" ELSE "book"
    /\ left' = IF left = 0 \/ imported + skipped >= count THEN 0 ELSE left
    /\ UNCHANGED <<cmd, options_count,
                   count, imported, skipped, errors, fetches, sent,
                   fetched, cur, catalog>>
    /\ UNCHANGED <<storeVars, lvVars>>

\* import_book up to the download of the file: 'skipped' for a slug that
\* exists, an exception when the book has no downloadable format.
import_book(slug, hasFormat) ==
    /\ cmd = "gutenberg" /\ pc = "book"
    /\ left' = left - 1
    /\ sent' = 0
    /\ IF slug \in catalog
       THEN /\ skipped' = skipped + 1 /\ pc' = "for"
            /\ UNCHANGED <<errors, cur>>
       ELSE IF ~hasFormat
       THEN /\ errors' = errors + 1 /\ pc' = "for"
            /\ UNCHANGED <<skipped, cur>>
       ELSE /\ cur' = slug /\ pc' = "download"
            /\ UNCHANGED <<skipped, errors>>
    /\ UNCHANGED <<cmd, options_count,
                   count, imported, fetches, fetched, catalog>>
    /\ UNCHANGED <<storeVars, lvVars>>

\* download_file(download_url) and the rest of import_book: the Product is
\* saved when the file arrived, else "Failed to download ebook" is raised
\* and handle counts an error.
download_file(outcome) ==
    /\ cmd = "gutenberg" /\ pc = "download"
    /\ sent' = sent + 1
    /\ IF outcome = "ok"
       THEN /\ catalog' = catalog \cup {cur}
            /\ imported' = imported + 1
            /\ fetched' = "file"
            /\ cur' = NoSlug /\ pc' = "for"
            /\ UNCHANGED errors
       ELSE IF ShouldRetry(sent, outcome)
       THEN /\ pc' = "download"
            /\ UNCHANGED <<catalog, imported, errors, fetched, cur>>
       ELSE /\ errors' = errors + 1
            /\ fetched' = "file_failed"
            /\ cur' = NoSlug /\ pc' = "for"
            /\ UNCHANGED <<catalog, imported>>
    /\ UNCHANGED <<cmd, options_count, count, skipped, fetches, left>>
    /\ UNCHANGED <<storeVars, lvVars>>

\* The values of --count that are tried: small ones, the cap and one above.
CountOptions == (1..MaxCount) \cup {GutenbergCap, GutenbergCap + 1}

NextGutenberg ==
    \/ \E c \in CountOptions : GutenbergStart(c)
    \/ GutenbergWhile
    \/ \E outcome \in HttpOutcomes, n \in 0..MaxPage :
          fetch_gutenberg_books(outcome, n)
    \/ GutenbergFor
    \/ \E slug \in Slugs, hasFormat \in BOOLEAN : import_book(slug, hasFormat)
    \/ \E outcome \in HttpOutcomes : download_file(outcome)

\* ------------------------------------------------------------------------
\* scrape_librivox_chinese
\* ------------------------------------------------------------------------

\* The batches the API returns: one to MaxPage books, each given by the slug
\* handle computes for it.
Batches == UNION { [1..n -> Slugs] : n \in 1..MaxPage }

\* What prepare_product_data reads of a book besides the slug: it has no
\* title, or a title and no url_iarchive, or a title and a cover image URL.
BookKinds == {"untitled", "plain", "cover"}

\* What the API answers to one request for a batch: a list of books with
\* status 200 (an empty list after the last book), or a failure.
BatchResponses ==
    ({"ok"} \X (Batches \cup {<<>>}))
        \cup ((HttpOutcomes \ {"ok"}) \X {<<>>})

NoTxn == [broken |-> FALSE, added |-> {}]

\* handle, up to the while loop: any --count and --workers, and the cache of
\* the slugs of the category's products.
LibrivoxStart(c, w, ex) ==
    /\ cmd = "librivox" /\ pc = "start"
    /\ options_count' = c
    /\ count' = c /\ workers' = w
    /\ imported' = 0 /\ skipped' = 0 /\ errors' = 0
    /\ existing_slugs' = ex
    /\ pc' = "while"
    /\ UNCHANGED <<cmd, fetches, sent, fetched, left, cur, catalog>>
    /\ UNCHANGED <<books, books_to_import, products_data, futures,
                   created_count, txn>>
    /\ UNCHANGED storeVars

\* while imported + skipped < count
LibrivoxWhile ==
    /\ cmd = "librivox" /\ pc = "while"
    /\ pc' = IF imported + skipped < count THEN "fetch" ELSE "done"
    /\ sent' = 0
    /\ UNCHANGED <<cmd, options_count,
                   count, imported, skipped, errors, fetches,
                   fetched, left, cur, catalog>>
    /\ UNCHANGED <<storeVars, lvVars>>

\* fetch_chinese_books_batch and the `if not books: break` after it.
fetch_chinese_books_batch(outcome, batch) ==
    /\ cmd = "librivox" /\ pc = "fetch"
    /\ fetches < MaxFetches \/ sent > 0
    /\ sent' = sent + 1
    /\ fetches' = IF sent = 0 THEN fetches + 1 ELSE fetches
    /\ IF outcome = "ok"
       THEN /\ books' = batch
            /\ fetched' = "page"
            /\ pc' = IF batch # <<>> THEN "filter" ELSE "done"
       ELSE IF ShouldRetry(sent, outcome)
       THEN /\ pc' = "fetch" /\ UNCHANGED <<books, fetched>>
       ELSE /\ books' = <<>> /\ fetched' = "page_failed" /\ pc' = "done"
    /\ UNCHANGED <<cmd, options_count,
                   count, imported, skipped, errors, left, cur, catalog>>
    /\ UNCHANGED <<workers, existing_slugs, books_to_import, products_data,
                   futures, created_count, txn>>
    /\ UNCHANGED storeVars

\* The filter loop of handle over the batch from book i on, with sk the value
\* of skipped and acc the books kept so far: a book whose slug is cached is
\* skipped; another one is appended and the loop breaks once
\* imported + skipped >= count.
RECURSIVE FilterBooks(_, _, _)
FilterBooks(i, sk, acc) ==
    IF i > Len(books) THEN <<sk, acc>>
    ELSE IF books[i] \in existing_slugs
    THEN FilterBooks(i + 1, sk + 1, acc)
    ELSE IF imported + sk >= count
    THEN <<sk, Append(acc, books[i])>>
    ELSE FilterBooks(i + 1, sk, Append(acc, books[i]))

\* handle: the filter loop, and `if not books_to_import: continue`.
LibrivoxFilter ==
    /\ cmd = "librivox" /\ pc = "filter"
    /\ skipped' = FilterBooks(1, skipped, <<>>)[1]
    /\ books_to_import' = FilterBooks(1, skipped, <<>>)[2]
    /\ pc' = IF books_to_import' = <<>> THEN "while" ELSE "prepare"
    /\ books' = <<>>
    /\ UNCHANGED <<cmd, options_count,
                   count, imported, errors, fetches, sent, fetched,
                   left, cur, catalog>>
    /\ UNCHANGED <<workers, existing_slugs, products_data, futures,
                   created_count, txn>>
    /\ UNCHANGED storeVars

\* prepare_product_data for the books bs from i on, kinds[i] telling what
\* book i holds: a book without a title gives None and is dropped.
RECURSIVE PrepareAll(_, _, _)
PrepareAll(bs, kinds, i) ==
    IF i > Len(bs) THEN <<>>
    ELSE IF kinds[i] = "untitled" THEN PrepareAll(bs, kinds, i + 1)
    ELSE <<[slug |-> bs[i], image_url |-> (kinds[i] = "cover"),
            image_content |-> "none"]>> \o PrepareAll(bs, kinds, i + 1)

\* The step of handle after bulk_import_books returned n.
AfterBatch(n) == IF imported + n + skipped >= count THEN "done" ELSE "while"

\* bulk_import_books: prepare the products, return 0 when there is none, else
\* submit one download_file per product that has an image URL.
LibrivoxPrepare(kinds) ==
    /\ cmd = "librivox" /\ pc = "prepare"
    /\ products_data' = PrepareAll(books_to_import, kinds, 1)
    /\ books_to_import' = <<>>
    /\ created_count' = 0
    /\ futures' = [i \in 1..Len(products_data') |->
                     IF products_data'[i].image_url THEN "queued" ELSE "none"]
    /\ pc' = IF products_data' = <<>> THEN AfterBatch(0) ELSE "pool"
    /\ UNCHANGED <<cmd, options_count,
                   count, imported, skipped, errors, fetches, sent,
                   fetched, left, cur, catalog>>
    /\ UNCHANGED <<workers, existing_slugs, books, txn>>
    /\ UNCHANGED storeVars

Running == { i \in DOMAIN futures : futures[i] = "running" }

\* A thread of the pool takes a queued download_file call; at most `workers`
\* calls run at a time.
WorkerStart(i) ==
    /\ i \in DOMAIN futures /\ futures[i] = "queued"
    /\ Cardinality(Running) < workers
    /\ futures' = [futures EXCEPT ![i] = "running"]
    /\ UNCHANGED <<workers, existing_slugs, books, books_to_import,
                   products_data, created_count, txn>>
    /\ UNCHANGED <<storeVars, impVars>>

\* The value download_file returns: the content for a 200 with more than
\* 1000 bytes, else None.
DownloadResult(outcome) == IF outcome = "ok" THEN "bytes" ELSE "empty"

\* download_file in a thread of the pool ends: one requests.get, and the
\* future holds what it returns.
WorkerFinish(i, outcome) ==
    /\ i \in DOMAIN futures /\ futures[i] = "running"
    /\ futures' = [futures EXCEPT ![i] = DownloadResult(outcome)]
    /\ UNCHANGED <<workers, existing_slugs, books, books_to_import,
                   products_data, created_count, txn>>
    /\ UNCHANGED <<storeVars, impVars>>

\* for future in as_completed(...): the main thread stores the result of a
\* finished future in products_data.
MainCollect(i) ==
    /\ cmd = "librivox" /\ pc = "pool"
    /\ i \in DOMAIN futures /\ futures[i] \in {"bytes", "empty"}
    /\ products_data' = [products_data EXCEPT ![i].image_content =
                            IF futures[i] = "bytes" THEN "bytes" ELSE "none"]
    /\ futures' = [futures EXCEPT ![i] = "collected"]
    /\ UNCHANGED <<workers, existing_slugs, books, books_to_import,
                   created_count, txn>>
    /\ UNCHANGED <<storeVars, impVars>>

\* A pool that is left while downloads are still queued or running.
PoolDrained_NoWait == TRUE

\* as_completed has yielded every future and the with block of the executor
\* has joined its threads.
PoolDrained == \A i \in DOMAIN futures : futures[i] \in {"none", "collected"}

\* The main thread leaves the with block and opens transaction.atomic().
ExitPool ==
    /\ cmd = "librivox" /\ pc = "pool"
    /\ PoolDrained
    /\ pc' = "create"
    /\ left' = Len(products_data)
    /\ txn' = NoTxn
    /\ UNCHANGED <<cmd, options_count,
                   count, imported, skipped, errors, fetches, sent,
                   fetched, cur, catalog>>
    /\ UNCHANGED <<workers, existing_slugs, books, books_to_import,
                   products_data, futures, created_count>>
    /\ UNCHANGED storeVars

\* The product the loop of the transaction is at.
NextProduct == products_data[Len(products_data) - left + 1]

\* One round of the loop inside transaction.atomic(): Product.objects.create,
\* with the exception caught by the loop. A slug that exists violates the
\* unique constraint; after a database error inside the atomic block every
\* further query of the block raises too.
CreateProduct ==
    /\ cmd = "librivox" /\ pc = "create" /\ left > 0
    /\ left' = left - 1
    /\ IF txn.broken
       THEN UNCHANGED <<catalog, existing_slugs, created_count, txn>>
       ELSE IF NextProduct.slug \in catalog
       THEN /\ txn' = [txn EXCEPT !.broken = TRUE]
            /\ UNCHANGED <<catalog, existing_slugs, created_count>>
       ELSE /\ catalog' = catalog \cup {NextProduct.slug}
            /\ txn' = [txn EXCEPT !.added = @ \cup {NextProduct.slug}]
            /\ existing_slugs' = existing_slugs \cup {NextProduct.slug}
            /\ created_count' = created_count + 1
    /\ UNCHANGED <<cmd, options_count,
                   pc, count, imported, skipped, errors, fetches, sent,
                   fetched, cur>>
    /\ UNCHANGED <<workers, books, books_to_import, products_data, futures>>
    /\ UNCHANGED storeVars

\* The end of the atomic block (commit, or rollback of the rows of the block
\* after a database error), return created_count, and in handle
\* imported += newly_imported and the test that ends the run.
LibrivoxCommit ==
    /\ cmd = "librivox" /\ pc = "create" /\ left = 0
    /\ catalog' = IF txn.broken THEN catalog \ txn.added ELSE catalog
    /\ imported' = imported + created_count
    /\ pc' = AfterBatch(created_count)
    /\ txn' = NoTxn
    /\ products_data' = <<>>
    /\ futures' = <<>>
    /\ created_count' = 0
    /\ UNCHANGED <<cmd, options_count,
                   count, skipped, errors, fetches, sent, fetched,
                   left, cur>>
    /\ UNCHANGED <<workers, existing_slugs, books, books_to_import>>
    /\ UNCHANGED storeVars

NextLibrivox ==
    \/ \E c \in 1..MaxCount, w \in 1..MaxWorkers, ex \in SUBSET catalog :
          LibrivoxStart(c, w, ex)
    \/ LibrivoxWhile
    \/ \E r \in BatchResponses : fetch_chinese_books_batch(r[1], r[2])
    \/ LibrivoxFilter
    \/ \E kinds \in [1..Len(books_to_import) -> BookKinds] :
          LibrivoxPrepare(kinds)
    \/ \E i \in 1..MaxPage : WorkerStart(i)
    \/ \E i \in 1..MaxPage, outcome \in HttpOutcomes : WorkerFinish(i, outcome)
    \/ \E i \in 1..MaxPage : MainCollect(i)
    \/ ExitPool
    \/ CreateProduct
    \/ LibrivoxCommit

\* ------------------------------------------------------------------------
\* Specifications
\* ------------------------------------------------------------------------

NoResponse == Response("none", Anon, NoProduct, NoOrder, "none", "none")

\* No management command runs.
ImportIdle ==
    /\ cmd = "none" /\ pc = "idle"
    /\ options_count = 0
    /\ count = 0 /\ imported = 0 /\ skipped = 0 /\ errors = 0
    /\ fetches = 0 /\ sent = 0 /\ fetched = "none"
    /\ left = 0 /\ cur = NoSlug
    /\ catalog = {}
    /\ workers = 0 /\ existing_slugs = {}
    /\ books = <<>> /\ books_to_import = <<>> /\ products_data = <<>>
    /\ futures = <<>> /\ created_count = 0 /\ txn = NoTxn

\* No request is served while a management command is examined.
StoreIdle ==
    /\ price = [p \in Products |-> 0]
    /\ active = [p \in Products |-> TRUE]
    /\ ext = [p \in Products |-> FALSE]
    /\ file = [p \in Products |-> FALSE]
    /\ orders = <<>>
    /\ items = <<>>
    /\ last = NoResponse

\* The download flow: customers place orders, the staff sets their status,
\* customers ask for downloads. The catalog is any configuration in which the
\* course is a paid product.
InitDownload ==
    /\ price \in {f \in [Products -> Prices] : f["course"] > 0}
    /\ active = [p \in Products |-> TRUE]
    /\ ext \in [Products -> BOOLEAN]
    /\ file \in [Products -> BOOLEAN]
    /\ orders = <<>>
    /\ items = <<>>
    /\ last = NoResponse
    /\ ImportIdle

NextDownload ==
    \/ \E u \in Users, p \in Products : create_order(u, p, "POST", <<"T">>)
    \/ \E o \in 1..MaxOrders, s \in STATUS_CHOICES : AdminSetStatus(o, s)
    \/ \E u \in Users, p \in Products, onDisk \in BOOLEAN :
          download_product(u, p, onDisk)

SpecDownload == InitDownload /\ [][NextDownload]_vars

\* Customers alone: every view, every requester, no admin edit.
InitCustomer ==
    /\ price \in [Products -> Prices]
    /\ active \in [Products -> BOOLEAN]
    /\ ext \in [Products -> BOOLEAN]
    /\ file = [p \in Products |-> TRUE]
    /\ orders = <<>>
    /\ items = <<>>
    /\ last = NoResponse
    /\ ImportIdle

NextCustomer ==
    \/ \E u \in Requesters, p \in ProductIds : product_detail(u, p)
    \/ \E u \in Requesters, p \in ProductIds : buy_now(u, p)
    \/ \E u \in Requesters, p \in ProductIds : checkout(u, p)
    \/ \E u \in Requesters, p \in ProductIds, f \in Forms :
          create_order(u, p, f[1], f[2])
    \/ \E u \in Requesters, p \in ProductIds, onDisk \in BOOLEAN :
          download_product(u, p, onDisk)
    \/ \E u \in Requesters : order_list(u)
    \/ \E u \in Requesters, o \in 1..(MaxOrders + 1) : order_detail(u, o)

SpecCustomer == InitCustomer /\ [][NextCustomer]_vars

\* The checkout flow: create_order with every input, while the staff changes
\* prices and takes products off the shelf.
InitCheckout ==
    /\ price \in [Products -> Prices]
    /\ active \in [Products -> BOOLEAN]
    /\ ext = [p \in Products |-> FALSE]
    /\ file = [p \in Products |-> TRUE]
    /\ orders = <<>>
    /\ items = <<>>
    /\ last = NoResponse
    /\ ImportIdle

NextCheckout ==
    \/ \E u \in Users, p \in ProductIds, f \in Forms :
          create_order(u, p, f[1], f[2])
    \/ \E p \in Products, v \in Prices : AdminSetPrice(p, v)
    \/ \E p \in Products, b \in BOOLEAN : AdminSetActive(p, b)

SpecCheckout == InitCheckout /\ [][NextCheckout]_vars

\* The order pages: customers place orders and look at them, the staff sets
\* their status. Both products are paid and have a file.
InitOrders ==
    /\ price = [p \in Products |-> 49]
    /\ active = [p \in Products |-> TRUE]
    /\ ext = [p \in Products |-> FALSE]
    /\ file = [p \in Products |-> TRUE]
    /\ orders = <<>>
    /\ items = <<>>
    /\ last = NoResponse
    /\ ImportIdle

NextOrders ==
    \/ \E u \in Users, p \in Products : create_order(u, p, "POST", <<"T">>)
    \/ \E o \in 1..MaxOrders, s \in STATUS_CHOICES : AdminSetStatus(o, s)
    \/ \E u \in Users, p \in Products, onDisk \in BOOLEAN :
          download_product(u, p, onDisk)
    \/ \E u \in Users : order_list(u)
    \/ \E u \in Users, o \in 1..(MaxOrders + 1) : order_detail(u, o)

SpecOrders == InitOrders /\ [][NextOrders]_vars

\* One run of a management command. The catalog it starts with is empty or
\* holds one of the books the API is going to return.
InitImport ==
    /\ cmd \in {"gutenberg", "librivox"} /\ pc = "start"
    /\ options_count = 0
    /\ count = 0 /\ imported = 0 /\ skipped = 0 /\ errors = 0
    /\ fetches = 0 /\ sent = 0 /\ fetched = "none"
    /\ left = 0 /\ cur = NoSlug
    /\ catalog \in {{}, {"s1"}}
    /\ workers = 0 /\ existing_slugs = {}
    /\ books = <<>> /\ books_to_import = <<>> /\ products_data = <<>>
    /\ futures = <<>> /\ created_count = 0 /\ txn = NoTxn
    /\ StoreIdle

NextImport == NextGutenberg \/ NextLibrivox

SpecImport == InitImport /\ [][NextImport]_vars

\* ========================================================================
\* Properties of the storefront
\* ========================================================================

Delivered == {"file", "external"}

\* The last request was a download_product of authenticated user u for p.
DownloadOf(u, p) ==
    /\ last.view = "download_product"
    /\ last.user = u
    /\ last.product = p

\* User u owns a completed order that contains an item for product p.
OwnsCompleted(u, p) ==
    \E o \in 1..Len(orders) :
        /\ orders[o].user = u
        /\ orders[o].status = "completed"
        /\ \E i \in 1..Len(items) : items[i].order = o /\ items[i].product = p

\* C1: for a product with price > 0, download_product answers with the file
\* or the external redirect only if the requesting user owns a completed
\* order containing an item for that product; pending, processing or
\* cancelled orders, no order, or another user's completed order deliver
\* nothing.
C1_PaidDownloadNeedsCompletedOrder ==
    \A u \in Users, p \in Products :
        (DownloadOf(u, p) /\ price[p] > 0 /\ last.result \in Delivered)
            => OwnsCompleted(u, p)

\* A paid product was denied to a user who has a pending order for it while
\* the other user owns a completed order for the same product.
C1_Witness ==
    \E u \in Users, v \in Users, p \in Products :
        /\ u # v
        /\ DownloadOf(u, p) /\ price[p] > 0
        /\ last.result = "redirect_order_detail"
        /\ OwnsCompleted(v, p)
        /\ ~OwnsCompleted(u, p)

\* C2: every order create_order inserts is pending and no customer-facing
\* view changes the status of an existing order, so with customer requests
\* alone every order stays pending and no paid product is delivered.
C2_Step ==
    /\ Len(orders') >= Len(orders)
    /\ \A o \in 1..Len(orders') :
        IF o <= Len(orders)
        THEN orders'[o].status = orders[o].status
        ELSE orders'[o].status = "pending"

C2_NoPaidDelivery ==
    /\ \A o \in 1..Len(orders) : orders[o].status = "pending"
    /\ \A p \in Products :
        (last.view = "download_product" /\ last.product = p /\ price[p] > 0)
            => last.result \notin Delivered

C2_CustomersNeverCompleteOrders == [][C2_Step]_vars /\ []C2_NoPaidDelivery

\* A customer with a pending order for a paid product that has a file asked
\* for the download and was sent to the order page.
C2_Witness ==
    \E u \in Users, p \in Products :
        /\ DownloadOf(u, p) /\ price[p] > 0 /\ file[p]
        /\ last.result = "redirect_order_detail"
        /\ orders[last.order].status = "pending"

\* C3: for a product with price 0 download_product does not look at orders:
\* an authenticated user gets the external redirect if an external URL is
\* set, else the file (404 when it is missing on disk) if one is attached,
\* else the redirect to the product page with an error.
C3_FreeDownloadIgnoresOrders ==
    \A u \in Users, p \in Products :
        (DownloadOf(u, p) /\ price[p] = 0) =>
            IF ext[p] THEN last.result = "external"
            ELSE IF file[p] THEN last.result \in {"file", "404"}
            ELSE last.result = "redirect_product_detail" /\ last.msg = "error"

\* A user without any order received the file of a free product.
C3_Witness ==
    \E u \in Users, p \in Products :
        /\ DownloadOf(u, p) /\ price[p] = 0
        /\ last.result = "file"
        /\ \A o \in 1..Len(orders) : orders[o].user # u

\* C4: with both an external URL and a file, an authorised download (free
\* product, or paid product with a completed order) redirects to the external
\* URL; the file is served only when no external URL is set.
C4_ExternalUrlFirst ==
    \A u \in Users, p \in Products :
        DownloadOf(u, p) =>
            /\ (ext[p] /\ (price[p] = 0 \/ OwnsCompleted(u, p)))
                  => last.result = "external"
            /\ last.result = "file" => ~ext[p]

\* A buyer of a paid product with both sources was sent to the external URL.
C4_Witness ==
    \E u \in Users, p \in Products :
        /\ DownloadOf(u, p) /\ price[p] > 0 /\ ext[p] /\ file[p]
        /\ OwnsCompleted(u, p)
        /\ last.result = "external"

\* The request create_order answered last is one it accepts: a POST of an
\* authenticated user for an active product with a non-blank transaction id.
C5_Acceptable ==
    /\ last'.method = "POST"
    /\ last'.user \in Users
    /\ last'.product \in Products
    /\ active[last'.product]
    /\ \E k \in 1..Len(last'.tx) : last'.tx[k] # " "

\* C5: create_order leaves the Order and OrderItem tables unchanged when the
\* request is not a POST, the product is unknown or inactive (404), or the
\* transaction id is blank (error and redirect to checkout); it inserts only
\* for a POST on an active product with a non-blank transaction id.
C5_Step ==
    /\ (orders' # orders \/ items' # items)
          => (last'.view = "create_order" /\ C5_Acceptable)
    /\ (last'.view = "create_order" /\ last'.user \in Users /\ ~C5_Acceptable)
          => /\ orders' = orders /\ items' = items
             /\ last'.result =
                  IF last'.method # "POST" THEN "redirect_product_list"
                  ELSE IF ~(last'.product \in Products /\ active[last'.product])
                  THEN "404"
                  ELSE "redirect_checkout"
             /\ last'.result = "redirect_checkout" => last'.msg = "error"

C5_CreateOrderRejectsWithoutEffect == [][C5_Step]_vars

\* A POST whose transaction id is only whitespace was turned down with the
\* error while an order placed earlier is still the only one.
C5_Witness ==
    /\ last.view = "create_order" /\ last.method = "POST"
    /\ last.tx = <<" ">>
    /\ last.result = "redirect_checkout" /\ last.msg = "error"
    /\ Len(orders) = 1 /\ Len(items) = 1

\* C6: a successful create_order inserts one Order of the requesting user and
\* one OrderItem in it, with quantity 1, the product's price of that moment
\* and total_amount equal to it; so every order's total_amount is the sum of
\* quantity * price over its items, whatever the product's price is later.
C6_Inv ==
    \A o \in 1..Len(orders) :
        /\ orders[o].total_amount = ItemsTotal(o)
        /\ Cardinality(ItemsOf(o)) = 1
        /\ \A i \in ItemsOf(o) :
              items[i].quantity = 1 /\ items[i].price = orders[o].total_amount

C6_Step ==
    /\ \A o \in 1..Len(orders) : Len(orders') >= o /\ orders'[o] = orders[o]
    /\ \A i \in 1..Len(items) : Len(items') >= i /\ items'[i] = items[i]
    /\ Len(orders') > Len(orders) =>
          /\ Len(orders') = Len(orders) + 1
          /\ Len(items') = Len(items) + 1
          /\ last'.view = "create_order"
          /\ orders'[Len(orders')].user = last'.user
          /\ orders'[Len(orders')].total_amount = price[last'.product]
          /\ items'[Len(items')] =
                [order |-> Len(orders'), product |-> last'.product,
                 quantity |-> 1, price |-> price[last'.product]]
    /\ Len(orders') = Len(orders) => Len(items') = Len(items)

C6_OrderTotalsMatchItems == []C6_Inv /\ [][C6_Step]_vars

\* Two orders for the same product carry different totals, each equal to its
\* own item, and the older one differs from the product's price of today.
C6_Witness ==
    /\ Len(orders) = 2 /\ Len(items) = 2
    /\ items[1].product = items[2].product
    /\ orders[1].total_amount # orders[2].total_amount
    /\ orders[1].total_amount = 49
    /\ price[items[1].product] = 0
    /\ C6_Inv

\* C7: a user sees only their own orders: order_detail shows an order only to
\* its owner (404 otherwise), order_list shows exactly the requesting user's
\* orders, and the pending-order redirect of download_product targets an
\* order of the requesting user.
C7_OwnOrdersOnly ==
    /\ last.view = "order_detail" =>
          /\ last.result \in {"page", "404"}
          /\ last.result = "page" <=>
                (last.order \in 1..Len(orders)
                    /\ orders[last.order].user = last.user)
          /\ last.visible = IF last.result = "page" THEN {last.order} ELSE {}
    /\ last.view = "order_list" =>
          last.visible = {o \in 1..Len(orders) : orders[o].user = last.user}
    /\ (last.view = "download_product" /\ last.result = "redirect_order_detail")
          => (last.order \in 1..Len(orders)
                 /\ orders[last.order].user = last.user)

\* A user asked for the existing order of the other user and got a 404.
C7_Witness ==
    /\ last.view = "order_detail" /\ last.result = "404"
    /\ last.order \in 1..Len(orders)
    /\ orders[last.order].user # last.user
    /\ Len(orders) = 2 /\ orders[1].user # orders[2].user

\* C8: an unauthenticated request to buy_now, checkout, create_order,
\* download_product, order_list or order_detail is answered by the redirect
\* to the login page: it inserts no Order or OrderItem and delivers no file
\* and no external redirect, for free and paid products alike.
C8_Inv ==
    (last.user = Anon /\ last.view \in {"buy_now", "checkout", "create_order",
                        "download_product", "order_list", "order_detail"})
        => (last.result = "login" /\ last.visible = {})

C8_Step ==
    last'.user = Anon => (orders' = orders /\ items' = items)

C8_AnonymousGetsNothing == []C8_Inv /\ [][C8_Step]_vars

\* An anonymous download request was sent to the login page although a free
\* product with a file is in the catalog.
C8_Witness ==
    /\ last = LoginRedirect("download_product")
    /\ \E p \in Products : price[p] = 0 /\ file[p] /\ active[p]

\* ------------------------------------------------------------------------
\* The importers' HTTP fetches
\* ------------------------------------------------------------------------

FailedFetch == {"page_failed", "file_failed"}

\* The step in which an importer gives a request up: the page is taken as
\* empty or the book as failed.
GivesUp == sent' = sent + 1 /\ pc' # pc /\ fetched' \in FailedFetch

C9_SentOnce == sent <= 1

C9_Step ==
    /\ sent' # sent => (sent' = 0 \/ (sent = 0 /\ sent' = 1))
    /\ (GivesUp /\ fetched' = "page_failed")
          => (pc' = "done" /\ left' = 0 /\ books' = <<>>
                /\ catalog' = catalog /\ errors' = errors)
    /\ (GivesUp /\ fetched' = "file_failed")
          => (errors' = errors + 1 /\ catalog' = catalog
                /\ imported' = imported /\ pc' = "for")

WorkerStep ==
    /\ DOMAIN futures' = DOMAIN futures
    /\ \E i \in DOMAIN futures :
          /\ futures'[i] # futures[i]
          /\ futures'[i] \in {"running", "bytes", "empty"}

Unfinished == { i \in DOMAIN futures : futures[i] \in {"queued", "running"} }

C10_Step ==
    /\ WorkerStep => /\ cmd = "librivox"
                     /\ UNCHANGED <<catalog, existing_slugs, txn>>
                     /\ UNCHANGED <<imported, skipped, errors, created_count>>
                     /\ UNCHANGED <<products_data, pc>>
    /\ products_data' # products_data
          => (~WorkerStep /\ pc \in {"prepare", "pool", "create"})
    /\ catalog' # catalog => Unfinished = {}
    /\ cmd = "gutenberg" => (futures' = <<>> /\ Unfinished = {})

\* C10: in scrape_librivox_chinese a step of a pool thread changes only its
\* future: the catalog, the slug cache, the transaction, the counters and
\* products_data stay as they are; products_data is written by the main
\* thread; a Product is created only when no cover download of the batch is
\* queued or running. import_gutenberg_books submits no future.
C10_PoolOnlyDownloadsCovers == [][C10_Step]_vars

\* Two cover downloads of one batch ran in the pool, both were collected,
\* one brought an image, and the transaction has created a Product.
C10_Witness ==
    /\ cmd = "librivox" /\ pc = "create"
    /\ Len(futures) >= 2
    /\ \A i \in DOMAIN futures : futures[i] = "collected"
    /\ \E i \in DOMAIN products_data : products_data[i].image_content = "bytes"
    /\ created_count >= 1

\* ------------------------------------------------------------------------
\* The --count limit of the page importers
\* ------------------------------------------------------------------------

C11_Inv == cmd = "gutenberg" => imported + skipped <= count

C11_Step ==
    cmd = "gutenberg" =>
        /\ catalog' # catalog
              => /\ imported' = imported + 1
                 /\ Cardinality(catalog') = Cardinality(catalog) + 1
                 /\ imported' <= count
        /\ errors' # errors
              => /\ errors' = errors + 1
                 /\ imported' = imported /\ skipped' = skipped
                 /\ catalog' = catalog

\* C11: in a run of import_gutenberg_books imported + skipped <= count holds
\* in every state; every Product the run creates raises imported by one, so
\* the run creates at most count Products; a book that raises an error
\* raises errors alone and leaves imported, skipped and the catalog as they
\* are.
C11_CountLimitsImportedAndSkipped == []C11_Inv /\ [][C11_Step]_vars

\* A run has ended at its limit after a book was counted as an error: the
\* error did not use up the quota.
C11_Witness ==
    /\ cmd = "gutenberg" /\ pc = "done"
    /\ errors >= 1 /\ imported >= 1
    /\ imported + skipped = count

\* ------------------------------------------------------------------------
\* The --count limit of scrape_librivox_chinese
\* ------------------------------------------------------------------------

\* C12: a run of scrape_librivox_chinese never creates more than count
\* Products (those of the earlier batches plus those of the open
\* transaction), and when the run has ended imported + skipped <= count.
C12_LibrivoxImportsAtMostCount ==
    cmd = "librivox" =>
        /\ imported + created_count <= count
        /\ pc = "done" => imported + skipped <= count

\* ------------------------------------------------------------------------
\* The cap of import_gutenberg_books
\* ------------------------------------------------------------------------

\* C13: once handle of import_gutenberg_books has read its options, the
\* limit of the run is --count when that is at most 500 and 500 otherwise,
\* so the limit is at most 500 and the run never has imported + skipped
\* above 500.
C13_CountCappedAt500 ==
    (cmd = "gutenberg" /\ pc # "start") =>
        /\ count = IF options_count <= GutenbergCap THEN options_count
                   ELSE GutenbergCap
        /\ count <= GutenbergCap
        /\ imported + skipped <= count
        /\ imported + skipped <= GutenbergCap

\* A run asked for more than 500 books works with the limit 500 and has
\* imported and skipped books under it.
C13_Witness ==
    /\ cmd = "gutenberg" /\ pc = "done"
    /\ options_count > GutenbergCap /\ count = GutenbergCap
    /\ imported >= 1 /\ skipped >= 1

\* ------------------------------------------------------------------------
\* Books that exist already
\* ------------------------------------------------------------------------

C14_Step ==
    /\ (cmd = "gutenberg" /\ pc = "book" /\ pc' = "download")
          => cur' \notin catalog
    /\ (cmd = "gutenberg" /\ pc = "book" /\ skipped' # skipped)
          => catalog' = catalog
    /\ (cmd = "librivox" /\ pc = "filter" /\ pc' # pc)
          => \A i \in DOMAIN books_to_import' :
                books_to_import'[i] \notin catalog

\* C14: a book whose slug is the slug of a Product is skipped and creates no
\* Product: import_gutenberg_books downloads only books whose slug is not in
\* the catalog; the filter loop of scrape_librivox_chinese counts every book
\* it visits and whose slug is in the catalog as skipped and keeps none of
\* them for the import.
C14_ExistingBooksAreSkipped == [][C14_Step]_vars

====
